---- MODULE Spec2Model ----
(***************************************************************************)
(* Model of the CSV image-compression service (src/server.js lines 18-276, *)
(* the document controller; src/router/docRouter.js, the two routes).      *)
(*                                                                         *)
(* Every action is one run-to-completion segment of the JavaScript event   *)
(* loop: the completion of the operation a handler is awaiting, followed   *)
(* by the synchronous code up to the handler's next await.                 *)
(*                                                                         *)
(* Strings are sequences of tokens (mostly single characters), so that     *)
(* split, trim, startsWith and join are computed as the code computes them.*)
(***************************************************************************)
EXTENDS Integers, Sequences, FiniteSets, Bags, TLC

\* ------------------------------------------------------------------ bounds
MaxUploads == 2   \* upload requests served concurrently (SpecConcurrent)
MaxUrls == 3      \* url entries of an uploaded table, over all its rows
MaxClock == 1     \* largest reading of Date.now()

\* ------------------------------------------------------- string primitives
RECURSIVE SplitFrom(_, _, _)
SplitFrom(s, sep, cur) ==
    IF s = <<>> THEN <<cur>>
    ELSE IF Head(s) = sep THEN <<cur>> \o SplitFrom(Tail(s), sep, <<>>)
    ELSE SplitFrom(Tail(s), sep, Append(cur, Head(s)))

\* String.prototype.split(','): always at least one piece, pieces may be empty
Split(s, sep) == SplitFrom(s, sep, <<>>)

RECURSIVE TrimStart(_)
TrimStart(s) == IF s # <<>> /\ Head(s) = " " THEN TrimStart(Tail(s)) ELSE s

RECURSIVE TrimEnd(_)
TrimEnd(s) ==
    IF s # <<>> /\ s[Len(s)] = " " THEN TrimEnd(SubSeq(s, 1, Len(s) - 1)) ELSE s

\* String.prototype.trim()
Trim(s) == TrimEnd(TrimStart(s))

\* String.prototype.startsWith(p)
StartsWith(s, p) == Len(s) >= Len(p) /\ SubSeq(s, 1, Len(p)) = p

RECURSIVE Join(_, _)
\* Array.prototype.join(sep)
Join(ss, sep) ==
    IF ss = <<>> THEN <<>>
    ELSE IF Len(ss) = 1 THEN ss[1]
    ELSE ss[1] \o sep \o Join(Tail(ss), sep)

\* Array.prototype.map(url => url.trim())
MapTrim(ss) == [i \in 1..Len(ss) |-> Trim(ss[i])]

Digit == <<"0", "1", "2", "3", "4", "5", "6", "7", "8", "9">>

RECURSIVE NumToStr(_)
\* template-literal conversion of a non-negative integer
NumToStr(n) == IF n < 10 THEN <<Digit[n + 1]>> ELSE NumToStr(n \div 10) \o <<Digit[(n % 10) + 1]>>

HttpsScheme == <<"h", "t", "t", "p", "s", ":", "/", "/">>
HttpScheme == <<"h", "t", "t", "p", ":", "/", "/">>
Comma == ","

\* ------------------------------------------------------------ input tables
\* A parsed row is a function from the columns present in the file's header
\* to the (parser-trimmed) field text; a column missing from the header reads
\* as undefined.
SNo == "S. No."
ProductName == "Product Name"
InputImageUrls == "Input Image Urls"
OutputImageUrls == "Output Image Urls"

UrlA == HttpsScheme \o <<"a">>
UrlB == HttpsScheme \o <<"b">>
UrlBad == HttpScheme \o <<"a">>

RECURSIVE SeqsUpTo(_, _)
\* all sequences over S of length 0..n
SeqsUpTo(S, n) ==
    IF n = 0 THEN {<<>>}
    ELSE LET shorter == SeqsUpTo(S, n - 1)
         IN  shorter \cup {Append(q, x) : q \in {p \in shorter : Len(p) = n - 1}, x \in S}

MakeRow(sno, name, urls) ==
    (SNo :> sno) @@ (ProductName :> name) @@ (InputImageUrls :> urls)

DropColumn(row, col) == [c \in (DOMAIN row) \ {col} |-> row[c]]

\* a row whose url cell holds the given entries joined by ","
PlainRow(entries) == MakeRow(<<"1">>, <<"n">>, Join(entries, <<",">>))

RECURSIVE PlainTables(_, _)
\* every table of plain rows with at most n url entries in all, taken from urls
PlainTables(urls, n) ==
    {<<>>} \cup
    UNION {{<<PlainRow(es)>> \o t : t \in PlainTables(urls, n - Len(es))} :
             es \in SeqsUpTo(urls, n) \ {<<>>}}

\* valid rows with blanks around the comma, which trim() removes
SpacedRows ==
    {MakeRow(<<"1">>, <<"n">>, u) :
       u \in {UrlA \o <<" ", ",", " ">> \o UrlA, UrlA \o <<",", " ">> \o UrlB}}

InvalidUrlFields ==
    { <<>>,                               \* empty cell
      UrlBad,                             \* wrong scheme
      UrlA \o <<",">> \o UrlBad,          \* one good, one bad entry
      UrlA \o <<",">>,                    \* trailing comma: empty entry
      <<"a">> \o HttpsScheme }            \* scheme not at the start

InvalidRows ==
    {MakeRow(<<"1">>, <<"n">>, u) : u \in InvalidUrlFields}
    \cup {MakeRow(<<>>, <<"n">>, UrlA), MakeRow(<<"1">>, <<>>, UrlA)}
    \cup {DropColumn(MakeRow(<<"1">>, <<"n">>, UrlA), c) : c \in {SNo, ProductName, InputImageUrls}}

\* each spaced or invalid row alone, before and after a valid row
SpecialTables ==
    UNION {{<<r>>, <<r, PlainRow(<<UrlA>>)>>, <<PlainRow(<<UrlB>>), r>>} :
             r \in SpacedRows \cup InvalidRows}

\* tables uploaded when one request is followed through the pipeline
Tables == PlainTables({UrlA, UrlB}, MaxUrls) \cup SpecialTables

\* tables uploaded when requests are served concurrently: the requests share
\* one url, and one table is invalid
ConcurrentTables ==
    PlainTables({UrlA}, MaxUrls - 1) \cup {<<MakeRow(<<"1">>, <<"n">>, UrlBad)>>}

\* what multer hands to the handler: no file, a file the csv parser rejects,
\* or a file that parses into rows
NoFile == [present |-> FALSE, parses |-> FALSE, rows |-> <<>>]
BrokenFile == [present |-> TRUE, parses |-> FALSE, rows |-> <<>>]
CsvFile(rows) == [present |-> TRUE, parses |-> TRUE, rows |-> rows]

FilesOf(tables) == {NoFile, BrokenFile} \cup {CsvFile(t) : t \in tables}

\* ------------------------------------------------------------------- state
Uploads == 1..MaxUploads

VARIABLES
    now,        \* Date.now()
    requests,   \* table requests: sequence of status, id = position
    products,   \* table products: set of rows
    images,     \* table images: set of rows
    tmp,        \* uploaded temporary files not yet unlinked
    req,        \* per upload request: the uploadDoc invocation
    bg,         \* per upload request: its processImages invocation
    reports,    \* output files written by generateOutputCsv: path -> content
    posts,      \* bag of webhook POSTs attempted
    query       \* the latest GET /status/:requestId and its answer

vars == <<now, requests, products, images, tmp, req, bg, reports, posts, query>>

NULL == <<"null">>
NoResponse == [status |-> 0, message |-> "", requestId |-> 0]

MsgNoFile == "No file uploaded"
MsgInvalid == "Invalid CSV format or data"
MsgParse == "csv-parse error"
MsgDb == "database error"
MsgInternal == "Internal server error"
MsgStarted == "File uploaded and processing started"

\* error: the operation whose rejection the handler caught
MsgNotFound == "Request not found"

\* what getRequestStatus answers: res.json({requestId, status}) or
\* res.status(404 or 500).json({message})
StatusResponse(status, requestId, jobStatus, message) ==
    [status |-> status, requestId |-> requestId, jobStatus |-> jobStatus,
     message |-> message]

NoQuery == [requestId |-> 0, res |-> StatusResponse(0, 0, "", "")]

IdleReq == [pc |-> "idle", file |-> NoFile, validatedData |-> <<>>, requestId |-> 0,
            error |-> "none", res |-> NoResponse]

IdleBg == [pc |-> "none", requestId |-> 0, data |-> <<>>, row |-> 0, idx |-> 0,
           outputUrls |-> <<>>, processedData |-> <<>>, outputUrl |-> NULL,
           outputCsvPath |-> NULL, calls |-> <<>>, error |-> "none", webhook |-> "none"]

Init ==
    /\ now = 0
    /\ requests = <<>>
    /\ products = {}
    /\ images = {}
    /\ tmp = {}
    /\ req = [u \in Uploads |-> IdleReq]
    /\ bg = [u \in Uploads |-> IdleBg]
    /\ reports = <<>>
    /\ posts = EmptyBag
    /\ query = NoQuery

\* --------------------------------------------------------------- validator
\* JavaScript truthiness of row[col]: undefined and '' are falsy
Truthy(row, col) == col \in DOMAIN row /\ row[col] # <<>>

EveryUrlHttps(field) ==
    LET parts == Split(field, Comma)
    IN  \A i \in 1..Len(parts) : StartsWith(Trim(parts[i]), HttpsScheme)

RowOk(row) ==
    /\ Truthy(row, SNo)
    /\ Truthy(row, ProductName)
    /\ Truthy(row, InputImageUrls)
    /\ EveryUrlHttps(row[InputImageUrls])

\* validateCSV with results.some in place of results.every
validateCSV_some(file) ==
    IF ~file.parses THEN [ok |-> FALSE, value |-> <<>>, message |-> MsgParse]
    ELSE IF \E i \in 1..Len(file.rows) : RowOk(file.rows[i])
         THEN [ok |-> TRUE, value |-> file.rows, message |-> ""]
         ELSE [ok |-> FALSE, value |-> <<>>, message |-> MsgInvalid]

\* the promise validateCSV returns, settled
validateCSV(file) ==
    IF ~file.parses THEN [ok |-> FALSE, value |-> <<>>, message |-> MsgParse]
    ELSE IF \A i \in 1..Len(file.rows) : RowOk(file.rows[i])
         THEN [ok |-> TRUE, value |-> file.rows, message |-> ""]
         ELSE [ok |-> FALSE, value |-> <<>>, message |-> MsgInvalid]

\* --------------------------------------------------------------- job store
\* Row ids are opaque serials in the database; the model names a product by
\* (request id, row position) and an image by (request id, row, position).
UrlList(row) == MapTrim(Split(row[InputImageUrls], Comma))

ProductRow(requestId, r, row) ==
    [id |-> <<requestId, r>>, request_id |-> requestId,
     serial_number |-> row[SNo], product_name |-> row[ProductName]]

ImageRow(requestId, r, i, url) ==
    [id |-> <<requestId, r, i>>, product_id |-> <<requestId, r>>, input_url |-> url,
     processing_status |-> "pending", output_url |-> NULL]

RECURSIVE RowInserts(_, _, _)
\* the INSERT statements storeProductData issues for rows r..Len(data), in order
RowInserts(requestId, data, r) ==
    IF r > Len(data) THEN <<>>
    ELSE LET urls == UrlList(data[r])
         IN  <<[t |-> "products", row |-> ProductRow(requestId, r, data[r])]>>
             \o [i \in 1..Len(urls) |->
                    [t |-> "images", row |-> ImageRow(requestId, r, i, urls[i])]]
             \o RowInserts(requestId, data, r + 1)

Inserted(stmts, table) == {stmts[k].row : k \in {n \in 1..Len(stmts) : stmts[n].t = table}}

\* createRequest: one INSERT in its own transaction; succeeds or changes nothing
createRequest(ok) ==
    IF ok THEN [ok |-> TRUE, id |-> Len(requests) + 1, requests |-> Append(requests, "pending")]
    ELSE [ok |-> FALSE, id |-> 0, requests |-> requests]

\* storeProductData without BEGIN/COMMIT: every insert that succeeded stays
storeProductData_autocommit(requestId, data, done, commitOk) ==
    LET stmts == RowInserts(requestId, data, 1)
        kept == SubSeq(stmts, 1, done)
    IN  [ok |-> done = Len(stmts) /\ commitOk,
         products |-> products \cup Inserted(kept, "products"),
         images |-> images \cup Inserted(kept, "images")]

\* storeProductData: BEGIN, the inserts, COMMIT; the first `done` statements
\* succeed; a failure of any statement (or of COMMIT) ends in ROLLBACK
storeProductData(requestId, data, done, commitOk) ==
    LET stmts == RowInserts(requestId, data, 1)
        committed == done = Len(stmts) /\ commitOk
    IN  [ok |-> committed,
         products |-> IF committed THEN products \cup Inserted(stmts, "products") ELSE products,
         images |-> IF committed THEN images \cup Inserted(stmts, "images") ELSE images]

\* updateRequestStatus: UPDATE requests SET status WHERE id
updateRequestStatus(requestId, status) ==
    [i \in 1..Len(requests) |-> IF i = requestId THEN status ELSE requests[i]]

\* the UPDATE without "AND input_url = $4": every image of the request
updateImageStatus_everyUrl(requestId, inputUrl, status, outputUrl) ==
    LET ofRequest == {p.id : p \in {q \in products : q.request_id = requestId}}
    IN  {IF img.product_id \in ofRequest
         THEN [img EXCEPT !.processing_status = status, !.output_url = outputUrl]
         ELSE img : img \in images}

\* the UPDATE without "product_id IN (...)": every image with that url
updateImageStatus_anyRequest(requestId, inputUrl, status, outputUrl) ==
    {IF img.input_url = inputUrl
     THEN [img EXCEPT !.processing_status = status, !.output_url = outputUrl]
     ELSE img : img \in images}

\* updateImageStatus: UPDATE images ... WHERE product_id IN (products of the
\* request) AND input_url = inputUrl
updateImageStatus(requestId, inputUrl, status, outputUrl) ==
    LET ofRequest == {p.id : p \in {q \in products : q.request_id = requestId}}
    IN  {IF img.product_id \in ofRequest /\ img.input_url = inputUrl
         THEN [img EXCEPT !.processing_status = status, !.output_url = outputUrl]
         ELSE img : img \in images}


\* ------------------------------------------------- transformer and report
\* compressImage's return value
CompressedUrl(t) == <<"https://compressed-image-url.com/">> \o NumToStr(t) \o <<".jpg">>

\* generateOutputCsv's outputPath
OutputPath(t) == <<"./output_">> \o NumToStr(t) \o <<".csv">>

\* the webhook payload's outputCsvUrl
DownloadUrl(path) == <<"https://your-api-domain.com/download/">> \o path

\* the object processImages pushes to processedData for one row
ResultRow(row, outputUrls) ==
    (SNo :> row[SNo]) @@ (ProductName :> row[ProductName])
    @@ (InputImageUrls :> row[InputImageUrls])
    @@ (OutputImageUrls :> Join(outputUrls, <<",", " ">>))

ReportColumns == <<SNo, ProductName, InputImageUrls, OutputImageUrls>>

\* stringify(data, {header: true}): the columns are taken from the first
\* record, so no record gives an empty file; otherwise a header line and one
\* line of four fields per record
Stringify(data) ==
    IF data = <<>> THEN <<>>
    ELSE <<ReportColumns>>
         \o [k \in 1..Len(data) |-> [c \in 1..4 |-> data[k][ReportColumns[c]]]]

\* fs.writeFile(path, content): creates or overwrites
WriteFile(path, content) ==
    [q \in (DOMAIN reports) \cup {path} |-> IF q = path THEN content ELSE reports[q]]

\* --------------------------------------------------------- processImages
\* the call compressImage(url) for the url at (r, i): axios.get is in flight
StartCompress(b, r, i) ==
    [b EXCEPT !.pc = "compressImage", !.row = r, !.idx = i,
              !.calls = Append(@, <<r, i>>)]

\* the call generateOutputCsv(processedData): the path is fixed at the call
StartReport(b) ==
    [b EXCEPT !.pc = "generateOutputCsv", !.outputCsvPath = OutputPath(now)]

\* processImages(requestId, data) up to its first await
processImages(requestId, data) ==
    LET b == [IdleBg EXCEPT !.requestId = requestId, !.data = data]
    IN  IF data = <<>> THEN StartReport(b) ELSE StartCompress(b, 1, 1)

\* after updateImageStatus returned: the next url, the next row or the report
AfterImage(b) ==
    IF b.idx < Len(UrlList(b.data[b.row])) THEN StartCompress(b, b.row, b.idx + 1)
    ELSE LET pushed == [b EXCEPT
                 !.processedData = Append(@, ResultRow(b.data[b.row], b.outputUrls)),
                 !.outputUrls = <<>>]
         IN  IF b.row < Len(b.data) THEN StartCompress(pushed, b.row + 1, 1)
             ELSE StartReport(pushed)

\* a catch block that only logs the error
Catch_logOnly(b, error) == [b EXCEPT !.pc = "endFailed", !.error = error]

\* the catch block: log, then call updateRequestStatus(requestId, 'failed')
Catch(b, error) == [b EXCEPT !.pc = "updateFailed", !.error = error]

CurrentUrl(b) == UrlList(b.data[b.row])[b.idx]

Tick ==
    /\ now < MaxClock
    /\ now' = now + 1
    /\ UNCHANGED <<query, requests, products, images, tmp, req, bg, reports, posts>>

\* compressImage with a failure caught per url: the loop goes on
compressImage_done_isolated(u) ==
    /\ bg[u].pc = "compressImage"
    /\ \E outcome \in {"ok", "FetchError", "EncodeError"} :
         bg' = [bg EXCEPT ![u] =
                  IF outcome = "ok"
                  THEN [@ EXCEPT !.pc = "updateImageStatus",
                                 !.outputUrl = CompressedUrl(now),
                                 !.outputUrls = Append(@, CompressedUrl(now))]
                  ELSE [AfterImage(@) EXCEPT !.error = outcome]]
    /\ UNCHANGED <<query, now, requests, products, images, tmp, req, reports, posts>>

\* compressImage with the image write not awaited: the loop goes on to the
\* next url at once
compressImage_done_noAwaitUpdate(u) ==
    /\ bg[u].pc = "compressImage"
    /\ \E outcome \in {"ok", "FetchError", "EncodeError"} :
         bg' = [bg EXCEPT ![u] =
                  IF outcome = "ok"
                  THEN AfterImage([@ EXCEPT !.outputUrl = CompressedUrl(now),
                                            !.outputUrls = Append(@, CompressedUrl(now))])
                  ELSE Catch(@, outcome)]
    /\ UNCHANGED <<query, now, requests, products, images, tmp, req, reports, posts>>

\* compressImage settles: fetched and re-encoded, or axios/sharp threw
compressImage_done(u) ==
    /\ bg[u].pc = "compressImage"
    /\ \E outcome \in {"ok", "FetchError", "EncodeError"} :
         bg' = [bg EXCEPT ![u] =
                  IF outcome = "ok"
                  THEN [@ EXCEPT !.pc = "updateImageStatus",
                                 !.outputUrl = CompressedUrl(now),
                                 !.outputUrls = Append(@, CompressedUrl(now))]
                  ELSE Catch(@, outcome)]
    /\ UNCHANGED <<query, now, requests, products, images, tmp, req, reports, posts>>

\* updateImageStatus with its error logged and not rethrown
updateImageStatus_done_swallowed(u) ==
    /\ bg[u].pc = "updateImageStatus"
    /\ \E ok \in BOOLEAN :
         /\ images' = IF ok THEN updateImageStatus(bg[u].requestId, CurrentUrl(bg[u]),
                                                   "completed", bg[u].outputUrl)
                      ELSE images
         /\ bg' = [bg EXCEPT ![u] = AfterImage(@)]
    /\ UNCHANGED <<query, now, requests, products, tmp, req, reports, posts>>

\* updateImageStatus(requestId, url, 'completed', outputUrl) settles
updateImageStatus_done(u) ==
    /\ bg[u].pc = "updateImageStatus"
    /\ \E ok \in BOOLEAN :
         IF ok
         THEN /\ images' = updateImageStatus(bg[u].requestId, CurrentUrl(bg[u]),
                                             "completed", bg[u].outputUrl)
              /\ bg' = [bg EXCEPT ![u] = AfterImage(@)]
         ELSE /\ images' = images
              /\ bg' = [bg EXCEPT ![u] = Catch(@, "updateImageStatus")]
    /\ UNCHANGED <<query, now, requests, products, tmp, req, reports, posts>>

\* generateOutputCsv settles: file written, or stringify/writeFile failed;
\* on success updateRequestStatus(requestId, 'completed') is called
generateOutputCsv_done(u) ==
    /\ bg[u].pc = "generateOutputCsv"
    /\ \E ok \in BOOLEAN :
         IF ok
         THEN /\ reports' = WriteFile(bg[u].outputCsvPath, Stringify(bg[u].processedData))
              /\ bg' = [bg EXCEPT ![u].pc = "updateCompleted"]
         ELSE /\ reports' = reports
              /\ bg' = [bg EXCEPT ![u] = Catch([@ EXCEPT !.outputCsvPath = NULL],
                                               "generateOutputCsv")]
    /\ UNCHANGED <<query, now, requests, products, images, tmp, req, posts>>

WebhookPayload(requestId, outputCsvPath) ==
    [requestId |-> requestId, status |-> "completed",
     outputCsvUrl |-> DownloadUrl(outputCsvPath)]

\* the webhook posted whether or not the status write succeeded
updateCompleted_done_notifyAnyway(u) ==
    /\ bg[u].pc = "updateCompleted"
    /\ \E ok \in BOOLEAN :
         /\ requests' = IF ok THEN updateRequestStatus(bg[u].requestId, "completed")
                        ELSE requests
         /\ posts' = posts (+) SetToBag({WebhookPayload(bg[u].requestId,
                                                        bg[u].outputCsvPath)})
         /\ bg' = [bg EXCEPT ![u] = IF ok THEN [@ EXCEPT !.pc = "sendWebhook",
                                                         !.webhook = "posted"]
                                    ELSE Catch(@, "updateRequestStatus")]
    /\ UNCHANGED <<query, now, products, images, tmp, req, reports>>

\* updateRequestStatus(requestId, 'completed') settles; on success
\* sendWebhookNotification posts the payload
updateCompleted_done(u) ==
    /\ bg[u].pc = "updateCompleted"
    /\ \E ok \in BOOLEAN :
         IF ok
         THEN /\ requests' = updateRequestStatus(bg[u].requestId, "completed")
              /\ posts' = posts (+) SetToBag({WebhookPayload(bg[u].requestId,
                                                             bg[u].outputCsvPath)})
              /\ bg' = [bg EXCEPT ![u].pc = "sendWebhook", ![u].webhook = "posted"]
         ELSE /\ requests' = requests
              /\ posts' = posts
              /\ bg' = [bg EXCEPT ![u] = Catch(@, "updateRequestStatus")]
    /\ UNCHANGED <<query, now, products, images, tmp, req, reports>>

\* sendWebhookNotification without its try/catch: the error reaches the
\* catch of processImages
sendWebhook_done_rethrown(u) ==
    /\ bg[u].pc = "sendWebhook"
    /\ \E delivered \in BOOLEAN :
         bg' = [bg EXCEPT ![u] =
                  IF delivered THEN [@ EXCEPT !.pc = "end", !.webhook = "delivered"]
                  ELSE Catch([@ EXCEPT !.webhook = "failed"], "sendWebhook")]
    /\ UNCHANGED <<query, now, requests, products, images, tmp, req, reports, posts>>

\* axios.post settles: delivered, or the error is logged and swallowed
sendWebhook_done(u) ==
    /\ bg[u].pc = "sendWebhook"
    /\ \E delivered \in BOOLEAN :
         bg' = [bg EXCEPT ![u].pc = "end",
                          ![u].webhook = IF delivered THEN "delivered" ELSE "failed"]
    /\ UNCHANGED <<query, now, requests, products, images, tmp, req, reports, posts>>

\* updateRequestStatus(requestId, 'failed') in the catch block settles; if it
\* throws, processImages' promise is rejected and nobody handles it
updateFailed_done(u) ==
    /\ bg[u].pc = "updateFailed"
    /\ \E ok \in BOOLEAN :
         IF ok
         THEN /\ requests' = updateRequestStatus(bg[u].requestId, "failed")
              /\ bg' = [bg EXCEPT ![u].pc = "endFailed"]
         ELSE /\ requests' = requests
              /\ bg' = [bg EXCEPT ![u].pc = "rejected"]
    /\ UNCHANGED <<query, now, products, images, tmp, req, reports, posts>>


\* ---------------------------------------------------------------- uploadDoc
Response(status, message, requestId) ==
    [status |-> status, message |-> message, requestId |-> requestId]

\* catch (validationError): unlink the upload and answer 400 with the
\* error's message, whatever threw (the upload exists, so unlinkSync succeeds)
InnerCatch(u, origin, message) ==
    /\ tmp' = tmp \ {u}
    /\ req' = [req EXCEPT ![u].pc = "done", ![u].error = origin,
                          ![u].res = Response(400, message, 0)]

\* POST /upload arrives (requests are numbered in arrival order); without a
\* file it is answered at once, otherwise validateCSV starts reading
uploadDoc(u, files) ==
    /\ req[u].pc = "idle"
    /\ IF u = 1 THEN TRUE ELSE req[u - 1].pc # "idle"
    /\ \E f \in files :
         IF ~f.present
         THEN /\ req' = [req EXCEPT ![u].pc = "done",
                                    ![u].res = Response(400, MsgNoFile, 0)]
              /\ tmp' = tmp
         ELSE /\ req' = [req EXCEPT ![u].pc = "validateCSV", ![u].file = f]
              /\ tmp' = tmp \cup {u}
    /\ UNCHANGED <<query, now, requests, products, images, bg, reports, posts>>

\* validateCSV settles; on success createRequest is called
uploadDoc_validated(u) ==
    /\ req[u].pc = "validateCSV"
    /\ LET v == validateCSV(req[u].file)
       IN  IF v.ok
           THEN /\ req' = [req EXCEPT ![u].pc = "createRequest",
                                      ![u].validatedData = v.value]
                /\ tmp' = tmp
           ELSE InnerCatch(u, "validateCSV", v.message)
    /\ UNCHANGED <<query, now, requests, products, images, bg, reports, posts>>

\* createRequest settles; on success storeProductData is called
uploadDoc_created(u) ==
    /\ req[u].pc = "createRequest"
    /\ \E ok \in BOOLEAN :
         LET r == createRequest(ok)
         IN  /\ requests' = r.requests
             /\ IF r.ok
                THEN /\ req' = [req EXCEPT ![u].pc = "storeProductData",
                                           ![u].requestId = r.id]
                     /\ tmp' = tmp
                ELSE InnerCatch(u, "createRequest", MsgDb)
    /\ UNCHANGED <<query, now, products, images, bg, reports, posts>>

\* storeProductData settles; on success updateRequestStatus(id, 'processing')
\* is called
uploadDoc_stored(u) ==
    /\ req[u].pc = "storeProductData"
    /\ \E done \in 0..Len(RowInserts(req[u].requestId, req[u].validatedData, 1)),
          commitOk \in BOOLEAN :
         LET r == storeProductData(req[u].requestId, req[u].validatedData, done, commitOk)
         IN  /\ products' = r.products
             /\ images' = r.images
             /\ IF r.ok
                THEN /\ req' = [req EXCEPT ![u].pc = "updateRequestStatus"]
                     /\ tmp' = tmp
                ELSE InnerCatch(u, "storeProductData", MsgDb)
    /\ UNCHANGED <<query, now, requests, bg, reports, posts>>

\* uploadDoc with "await processImages(...)": the acknowledgment waits for
\* the background routine to end
uploadDoc_statusUpdated_awaited(u) ==
    \/ /\ req[u].pc = "updateRequestStatus"
       /\ \E ok \in BOOLEAN :
            IF ok
            THEN /\ requests' = updateRequestStatus(req[u].requestId, "processing")
                 /\ tmp' = tmp \ {u}
                 /\ bg' = [bg EXCEPT ![u] = processImages(req[u].requestId,
                                                          req[u].validatedData)]
                 /\ req' = [req EXCEPT ![u].pc = "processImages"]
            ELSE /\ requests' = requests
                 /\ bg' = bg
                 /\ InnerCatch(u, "updateRequestStatus", MsgDb)
       /\ UNCHANGED <<query, now, products, images, reports, posts>>
    \/ /\ req[u].pc = "processImages"
       /\ bg[u].pc \in {"end", "endFailed"}
       /\ req' = [req EXCEPT ![u].pc = "done",
                             ![u].res = Response(200, MsgStarted, req[u].requestId)]
       /\ UNCHANGED <<query, now, requests, products, images, tmp, bg, reports, posts>>

\* uploadDoc with the error of the 'processing' write swallowed: processing
\* starts and the acknowledgment is sent either way
uploadDoc_statusUpdated_unchecked(u) ==
    /\ req[u].pc = "updateRequestStatus"
    /\ \E ok \in BOOLEAN :
         /\ requests' = IF ok THEN updateRequestStatus(req[u].requestId, "processing")
                        ELSE requests
         /\ tmp' = tmp \ {u}
         /\ bg' = [bg EXCEPT ![u] = processImages(req[u].requestId,
                                                  req[u].validatedData)]
         /\ req' = [req EXCEPT ![u].pc = "done",
                               ![u].res = Response(200, MsgStarted, req[u].requestId)]
    /\ UNCHANGED <<query, now, products, images, reports, posts>>

\* updateRequestStatus(id, 'processing') settles; on success the upload is
\* unlinked, processImages is started without being awaited, and the
\* acknowledgment is sent, all in the same turn of the event loop
uploadDoc_statusUpdated(u) ==
    /\ req[u].pc = "updateRequestStatus"
    /\ \E ok \in BOOLEAN :
         IF ok
         THEN /\ requests' = updateRequestStatus(req[u].requestId, "processing")
              /\ tmp' = tmp \ {u}
              /\ bg' = [bg EXCEPT ![u] = processImages(req[u].requestId,
                                                       req[u].validatedData)]
              /\ req' = [req EXCEPT ![u].pc = "done",
                                    ![u].res = Response(200, MsgStarted, req[u].requestId)]
         ELSE /\ requests' = requests
              /\ bg' = bg
              /\ InnerCatch(u, "updateRequestStatus", MsgDb)
    /\ UNCHANGED <<query, now, products, images, reports, posts>>

\* ---------------------------------------------------------- getRequestStatus
\* ids a status query may name: every request that can exist, and one more
StatusIds == 1..(MaxUploads + 1)

\* the SELECT without its WHERE clause: the rows of every request
selectStatus_noWhere(requestId) == requests

\* SELECT status FROM requests WHERE id = requestId: result.rows
selectStatus(requestId) ==
    IF requestId \in 1..Len(requests) THEN <<requests[requestId]>> ELSE <<>>

\* GET /status/:requestId: the SELECT is the handler's only access to the
\* store, so the handler is one step taken when the SELECT executes (or when
\* pool.connect or the query throws)
getRequestStatus(requestId) ==
    /\ \E ok \in BOOLEAN :
         LET rows == selectStatus(requestId)
         IN  query' = [requestId |-> requestId,
                       res |-> IF ~ok THEN StatusResponse(500, 0, "", MsgInternal)
                               ELSE IF Len(rows) = 0
                                    THEN StatusResponse(404, 0, "", MsgNotFound)
                                    ELSE StatusResponse(200, requestId, rows[1], "")]
    /\ UNCHANGED <<now, requests, products, images, tmp, req, bg, reports, posts>>

\* ------------------------------------------------------------ specification
Step(files, U) ==
    \/ Tick
    \/ \E u \in U : uploadDoc(u, files)
    \/ \E u \in U : uploadDoc_validated(u)
    \/ \E u \in U : uploadDoc_created(u)
    \/ \E u \in U : uploadDoc_stored(u)
    \/ \E u \in U : uploadDoc_statusUpdated(u)
    \/ \E u \in U : compressImage_done(u)
    \/ \E u \in U : updateImageStatus_done(u)
    \/ \E u \in U : generateOutputCsv_done(u)
    \/ \E u \in U : updateCompleted_done(u)
    \/ \E u \in U : sendWebhook_done(u)
    \/ \E u \in U : updateFailed_done(u)

\* one upload request, followed through ingestion and processing
Next == Step(FilesOf(Tables), {1})

Spec == Init /\ [][Next]_vars

\* one upload request, and status queries at any moment
NextStatus == Next \/ \E id \in StatusIds : getRequestStatus(id)

SpecStatus == Init /\ [][NextStatus]_vars

\* one upload request of a table with one url throughout, and status queries
\* at any moment
NextStatusPlain ==
    \/ Step(FilesOf(ConcurrentTables), {1})
    \/ \E id \in StatusIds : getRequestStatus(id)

SpecStatusPlain == Init /\ [][NextStatusPlain]_vars

\* MaxUploads upload requests served concurrently
NextConcurrent == Step(FilesOf(ConcurrentTables), Uploads)

SpecConcurrent == Init /\ [][NextConcurrent]_vars


\* the continuation of processImages after the call it awaits has settled
Resume(u) ==
    \/ compressImage_done(u)
    \/ updateImageStatus_done(u)
    \/ generateOutputCsv_done(u)
    \/ updateCompleted_done(u)
    \/ sendWebhook_done(u)
    \/ updateFailed_done(u)

\* one upload request, where every call processImages awaits settles and the
\* event loop then runs its continuation
SpecLive == Init /\ [][Next]_vars /\ \A u \in Uploads : WF_vars(Resume(u))


\* ------------------------------------------------------------------ claims
JobIds == 1..Len(requests)

ProductsOf(rid) == {p \in products : p.request_id = rid}

ImagesOf(rid) == {img \in images : img.product_id \in {p.id : p \in ProductsOf(rid)}}

\* C1: in every reachable state, every image of a request whose status is
\* 'completed' has processing_status 'completed' (whatever the table: no
\* rows, or a url that occurs more than once)
C1_CompletedJobAllImagesCompleted ==
    \A rid \in JobIds :
        requests[rid] = "completed" =>
            \A img \in ImagesOf(rid) : img.processing_status = "completed"

\* a completed request with two images of the same url in different rows
C1_Witness ==
    \E rid \in JobIds :
        /\ requests[rid] = "completed"
        /\ \E i1 \in ImagesOf(rid), i2 \in ImagesOf(rid) :
               i1.product_id # i2.product_id /\ i1.input_url = i2.input_url

\* C2 as stated: every request whose status is 'failed' has an image whose
\* processing_status is not 'completed'
C2_FailedJobHasIncompleteImage ==
    \A rid \in JobIds :
        requests[rid] = "failed" =>
            \E img \in ImagesOf(rid) : img.processing_status # "completed"

\* the urls processImages passed to compressImage before the current one
EarlierUrls(b) ==
    {UrlList(b.data[b.calls[k][1]])[b.calls[k][2]] : k \in 1..(Len(b.calls) - 1)}

\* the step that threw was the transformation or the image-status write of
\* a url the request has not passed to the transformer before
FailedAtFreshUrl(b) ==
    /\ b.error \in {"FetchError", "EncodeError", "updateImageStatus"}
    /\ CurrentUrl(b) \notin EarlierUrls(b)

\* C2 (amended): a request whose status is 'failed' has an image that is not
\* 'completed' when the step that failed was the transformation or the
\* image-status write of a url that does not occur earlier in the request
C2_FailedAtFreshUrlHasIncompleteImage ==
    \A u \in Uploads :
        (/\ bg[u].pc # "none"
         /\ requests[bg[u].requestId] = "failed"
         /\ FailedAtFreshUrl(bg[u]))
        => \E img \in ImagesOf(bg[u].requestId) :
               /\ img.input_url = CurrentUrl(bg[u])
               /\ img.processing_status # "completed"

\* a failed request whose second url could not be fetched: one image is
\* completed, one is not
C2_Witness ==
    \E u \in Uploads :
        /\ bg[u].pc = "endFailed"
        /\ requests[bg[u].requestId] = "failed"
        /\ bg[u].error = "FetchError"
        /\ FailedAtFreshUrl(bg[u])
        /\ \E img \in ImagesOf(bg[u].requestId) : img.processing_status = "completed"
        /\ \E img \in ImagesOf(bg[u].requestId) : img.processing_status = "pending"

JobTransitions ==
    {<<"pending", "processing">>, <<"processing", "completed">>, <<"processing", "failed">>}

\* C3: a request's status only moves pending -> processing -> completed or
\* pending -> processing -> failed; a new request starts 'pending'; no step
\* changes a status that is 'completed' or 'failed'
C3_JobStatusMonotonic ==
    [][/\ Len(requests') >= Len(requests)
       /\ \A rid \in 1..Len(requests') :
            IF rid \in JobIds
            THEN requests'[rid] = requests[rid]
                 \/ <<requests[rid], requests'[rid]>> \in JobTransitions
            ELSE requests'[rid] = "pending"]_vars

\* a request that went pending -> processing -> completed, after the webhook
\* step that follows the terminal write has failed
C3_Witness ==
    \E u \in Uploads :
        /\ bg[u].pc = "end"
        /\ bg[u].webhook = "failed"
        /\ requests[bg[u].requestId] = "completed"


RECURSIVE PositionsFrom(_, _)
\* the (row, url) positions of a table from row r on, in processing order
PositionsFrom(data, r) ==
    IF r > Len(data) THEN <<>>
    ELSE [i \in 1..Len(UrlList(data[r])) |-> <<r, i>>] \o PositionsFrom(data, r + 1)

Positions(data) == PositionsFrom(data, 1)

TransformerFailed(b) == b.error \in {"FetchError", "EncodeError"}

\* the calls of compressImage so far are the first positions of the table,
\* in order, and the last one is the url that failed
StoppedAtFailure(b) ==
    /\ b.calls = SubSeq(Positions(b.data), 1, Len(b.calls))
    /\ b.calls[Len(b.calls)] = <<b.row, b.idx>>

\* C4 as stated: once the transformer failed on a url and the routine has
\* ended, no later url was passed to the transformer, no report was written
\* and the request's status is 'failed'
C4_FailFastEndsFailed ==
    \A u \in Uploads :
        (TransformerFailed(bg[u]) /\ bg[u].pc \in {"endFailed", "rejected"})
        => /\ StoppedAtFailure(bg[u])
           /\ reports = <<>>
           /\ requests[bg[u].requestId] = "failed"

\* C4 (amended): from the failure of the transformer on, no later url is
\* passed to the transformer, no report is written and nothing is notified;
\* the status is 'failed' once the write of 'failed' has succeeded and stays
\* 'processing' when that write fails; it is never 'completed'
C4_FailFast ==
    \A u \in Uploads :
        TransformerFailed(bg[u])
        => /\ bg[u].pc \in {"updateFailed", "endFailed", "rejected"}
           /\ StoppedAtFailure(bg[u])
           /\ reports = <<>>
           /\ posts = EmptyBag
           /\ requests[bg[u].requestId] =
                 IF bg[u].pc = "endFailed" THEN "failed" ELSE "processing"

\* the transformer failed on the first url of a two-row table and the job has
\* ended 'failed'
C4_Witness ==
    \E u \in Uploads :
        /\ TransformerFailed(bg[u])
        /\ bg[u].pc = "endFailed"
        /\ Len(bg[u].data) = 2
        /\ bg[u].calls = <<(<<1, 1>>)>>
        /\ requests[bg[u].requestId] = "failed"

\* a row as the claim describes a valid one
C5_RowValid(row) ==
    /\ {SNo, ProductName, InputImageUrls} \subseteq DOMAIN row
    /\ Len(row[SNo]) > 0 /\ Len(row[ProductName]) > 0 /\ Len(row[InputImageUrls]) > 0
    /\ LET entries == Split(row[InputImageUrls], ",")
       IN  \A k \in DOMAIN entries :
               LET e == Trim(entries[k])
               IN  Len(e) >= 8 /\ SubSeq(e, 1, 8) = HttpsScheme

C5_TableValid(rows) == \A k \in DOMAIN rows : C5_RowValid(rows[k])

StoreOps == {"createRequest", "storeProductData", "updateRequestStatus"}

\* C5: once validateCSV has settled on a parsed table: if every row is valid
\* it resolved with exactly the input rows, and the upload is acknowledged
\* unless a store operation fails; otherwise the upload was answered 400
\* with the validation message and no request, product or image exists; an
\* acknowledged upload had a valid table
C5_AcceptedIffValid ==
    \A u \in Uploads :
        (req[u].file.parses /\ req[u].pc \notin {"idle", "validateCSV"})
        => IF C5_TableValid(req[u].file.rows)
           THEN /\ req[u].validatedData = req[u].file.rows
                /\ req[u].error # "validateCSV"
                /\ req[u].pc = "done" =>
                      (req[u].res.status = 200 \/ req[u].error \in StoreOps)
           ELSE /\ req[u].pc = "done"
                /\ req[u].res = Response(400, MsgInvalid, 0)
                /\ req[u].requestId = 0
                /\ requests = <<>> /\ products = {} /\ images = {}
                /\ bg[u].pc = "none"

\* a rejected table whose first row is valid and whose second is not
C5_Witness ==
    \E u \in Uploads :
        /\ req[u].pc = "done"
        /\ req[u].res.status = 400
        /\ Len(req[u].file.rows) = 2
        /\ C5_RowValid(req[u].file.rows[1])
        /\ ~C5_RowValid(req[u].file.rows[2])

\* every product and image of the rows is stored under the request
AllItemsStored(rid, data) ==
    /\ Cardinality(ProductsOf(rid)) = Len(data)
    /\ Cardinality(ImagesOf(rid)) = Len(Positions(data))

\* C6 as stated: once an upload is answered, the request row exists together
\* with all products and images of its rows, or none of them exists; a
\* failure of storeProductData leaves no request row
C6_IngestionAllOrNothing ==
    \A u \in Uploads :
        req[u].pc = "done"
        => /\ req[u].requestId \in JobIds =>
                 AllItemsStored(req[u].requestId, req[u].validatedData)
           /\ req[u].error = "storeProductData" => req[u].requestId \notin JobIds

\* C7 as stated: a store failure before the acknowledgment is answered 500
\* with the generic message; 400 with the error's message is given only for
\* validation failures
C7_StoreFailureIs5xx ==
    \A u \in Uploads :
        req[u].pc = "done"
        => /\ req[u].error \in StoreOps => req[u].res = Response(500, MsgInternal, 0)
           /\ (req[u].res.status = 400 /\ req[u].error # "none") =>
                 req[u].error = "validateCSV"

BgOf(rid) == {u \in Uploads : bg[u].pc # "none" /\ bg[u].requestId = rid}

\* C8: every webhook POST is the only one of its request; that request's
\* status is 'completed', every url of it was passed to the transformer and
\* every image is completed, and its report file is written at the path the
\* payload names; so no request that is 'failed' was notified
C8_NotifiedOnceAfterCompleted ==
    /\ \A p \in BagToSet(posts) :
          /\ CopiesIn(p, posts) = 1
          /\ \A q \in BagToSet(posts) : q.requestId = p.requestId => q = p
          /\ requests[p.requestId] = "completed"
          /\ \E u \in BgOf(p.requestId) :
                /\ bg[u].pc \in {"sendWebhook", "end"}
                /\ bg[u].error = "none"
                /\ bg[u].calls = Positions(bg[u].data)
                /\ Len(bg[u].processedData) = Len(bg[u].data)
                /\ bg[u].outputCsvPath \in DOMAIN reports
                /\ p.outputCsvUrl = DownloadUrl(bg[u].outputCsvPath)
          /\ \A img \in ImagesOf(p.requestId) : img.processing_status = "completed"
    /\ \A u \in Uploads : bg[u].webhook # "none" =>
          BagCardinality(posts) >= 1 /\ requests[bg[u].requestId] = "completed"

\* a request of two rows notified, with its one POST delivered
C8_Witness ==
    \E u \in Uploads :
        /\ bg[u].pc = "end" /\ bg[u].webhook = "delivered"
        /\ Len(bg[u].data) = 2
        /\ CopiesIn(WebhookPayload(bg[u].requestId, bg[u].outputCsvPath), posts) = 1

\* C9: when the POST failed, the request's status is 'completed', the routine
\* has ended, and the request was posted exactly once
C9_FailedNotificationHarmless ==
    \A u \in Uploads :
        bg[u].webhook = "failed"
        => /\ requests[bg[u].requestId] = "completed"
           /\ bg[u].pc = "end"
           /\ BagCardinality(posts) = 1
           /\ CopiesIn(WebhookPayload(bg[u].requestId, bg[u].outputCsvPath), posts) = 1

\* the POST of a completed two-url request failed
C9_Witness ==
    \E u \in Uploads :
        /\ bg[u].webhook = "failed"
        /\ Len(bg[u].calls) = 2
        /\ requests[bg[u].requestId] = "completed"

\* C10: no step of processImages settles before the acknowledgment is sent:
\* whenever the routine exists the upload has been answered 200 with its
\* request id, and a request that is 'completed' or 'failed' was acknowledged
C10_AckBeforeProcessingEnds ==
    \A u \in Uploads :
        /\ bg[u].pc # "none" =>
              req[u].res = Response(200, MsgStarted, bg[u].requestId)
        /\ (req[u].requestId \in JobIds
            /\ requests[req[u].requestId] \in {"completed", "failed"})
           => req[u].res.status = 200

\* an empty table acknowledged while its request is still 'processing'
C10_Witness ==
    \E u \in Uploads :
        /\ req[u].res.status = 200
        /\ req[u].file.parses /\ req[u].file.rows = <<>>
        /\ bg[u].pc = "generateOutputCsv"
        /\ requests[req[u].requestId] = "processing"


\* the answer the claim gives for id: the stored status, or not found
C11_Answer(id) ==
    IF id \in JobIds THEN StatusResponse(200, id, requests[id], "")
    ELSE StatusResponse(404, 0, "", MsgNotFound)

\* C11: a step that answers a status query changes no request, product or
\* image, and its answer is the stored status of the request if it exists
\* and 'Request not found' if it does not (or 500 when the read itself
\* fails); the answer depends on the store and the id only, so two queries
\* with no write between them get the same answer
C11_StatusQueryPureRead ==
    [][query' # query =>
         /\ UNCHANGED <<requests, products, images, req, bg, reports, posts>>
         /\ query'.res \in {C11_Answer(query'.requestId),
                            StatusResponse(500, 0, "", MsgInternal)}]_vars

\* a query for an unknown id answered 404 while a completed request exists
C11_Witness ==
    /\ query.res.status = 404
    /\ query.requestId \notin JobIds
    /\ \E rid \in JobIds : requests[rid] = "completed"


\* generateOutputCsv has written the request's report file
ReportWritten(b) ==
    \/ b.pc \in {"updateCompleted", "sendWebhook", "end"}
    \/ b.pc \in {"updateFailed", "endFailed", "rejected"} /\ b.error = "updateRequestStatus"

\* C12 as stated: the reports of two requests are at different paths, and
\* two images carry the same output url only if one call of the transformer
\* produced it (same request, same input url)
C12_GeneratedLocationsUnique ==
    /\ \A u \in Uploads, v \in Uploads :
          (u # v /\ ReportWritten(bg[u]) /\ ReportWritten(bg[v]))
          => bg[u].outputCsvPath # bg[v].outputCsvPath
    /\ \A i1 \in images, i2 \in images :
          (i1.output_url # NULL /\ i1.output_url = i2.output_url)
          => /\ i1.input_url = i2.input_url
             /\ \E rid \in JobIds : {i1, i2} \subseteq ImagesOf(rid)

\* C13 as stated: when the transformation of a url failed and the routine
\* has ended, the image of that url has processing_status 'failed'
C13_FailedTransformMarksImageFailed ==
    \A u \in Uploads :
        (TransformerFailed(bg[u]) /\ bg[u].pc \in {"endFailed", "rejected"})
        => \E img \in ImagesOf(bg[u].requestId) :
               /\ img.input_url = CurrentUrl(bg[u])
               /\ img.processing_status = "failed"

\* C14 as stated: an image that has left 'pending' is never written again:
\* no step changes its processing_status or its output_url
C14_ImageMutatedAtMostOnce ==
    [][\A img \in images : img.processing_status # "pending" => img \in images']_vars

RECURSIVE UrlCount(_, _)
\* the number of urls in the first n rows of a table
UrlCount(data, n) ==
    IF n = 0 THEN 0 ELSE UrlCount(data, n - 1) + Len(UrlList(data[n]))

\* the transformations of a job that have settled: one output url per
\* success, and the one that threw
Settled(b) ==
    UrlCount(b.data, Len(b.processedData)) + Len(b.outputUrls)
    + (IF TransformerFailed(b) THEN 1 ELSE 0)

\* the transformations of a job that have started and not settled
InFlight(b) == Len(b.calls) - Settled(b)

\* C15: in every reachable state, for every job, the transformations started
\* so far are the first positions of the table in row order then url order;
\* at most one of them has not settled, and exactly one while compressImage
\* is awaited; and the image of every position before the last one started
\* is already 'completed'
C15_SequentialInOrder ==
    \A u \in Uploads :
        LET b == bg[u]
        IN  b.pc # "none" =>
              /\ b.calls = SubSeq(Positions(b.data), 1, Len(b.calls))
              /\ InFlight(b) = (IF b.pc = "compressImage" THEN 1 ELSE 0)
              /\ \A k \in 1..(Len(b.calls) - 1) :
                    \E img \in images :
                        /\ img.id = <<b.requestId, b.calls[k][1], b.calls[k][2]>>
                        /\ img.processing_status = "completed"

\* the transformation of the first url of the second row is in flight, after
\* the urls of the first row
C15_Witness ==
    \E u \in Uploads :
        /\ bg[u].pc = "compressImage"
        /\ bg[u].row = 2
        /\ Len(bg[u].calls) >= 2
        /\ InFlight(bg[u]) = 1

\* the images a call updateImageStatus(rid, url, ...) is to write
Addressed(rid, url) == {img \in ImagesOf(rid) : img.input_url = url}

\* C16: in every step that changes a stored image, one job's
\* updateImageStatus has settled: every image of that job's request with the
\* call's input url is then 'completed' with the call's output url, and every
\* other image, those with the same url under other requests included, is
\* unchanged; and a step of one job's processing changes neither the status
\* nor the images of any other request
C16_ImageWriteFrame ==
    [][/\ (\E img \in images : img \notin images') =>
           \E u \in Uploads :
               LET b == bg[u]
                   hit == Addressed(b.requestId, CurrentUrl(b))
               IN  /\ b.pc = "updateImageStatus"
                   /\ hit # {}
                   /\ images' = (images \ hit)
                                 \cup {[img EXCEPT !.processing_status = "completed",
                                                   !.output_url = b.outputUrl]
                                       : img \in hit}
       /\ \A u \in Uploads :
             (bg[u].pc # "none" /\ bg'[u] # bg[u]) =>
                 \A rid \in JobIds \ {bg[u].requestId} :
                     /\ requests'[rid] = requests[rid]
                     /\ ImagesOf(rid)' = ImagesOf(rid)
     ]_vars

\* two requests hold an image of the same input url; the write of one job
\* has completed its image and the other request's image is still 'pending'
C16_Witness ==
    \E r1, r2 \in JobIds :
        /\ r1 # r2
        /\ \E i1 \in ImagesOf(r1), i2 \in ImagesOf(r2) :
              /\ i1.input_url = i2.input_url
              /\ i1.processing_status = "completed"
              /\ i2.processing_status = "pending"

\* the rows storeProductData is to leave for a table: one product per row
\* and one 'pending' image per trimmed url of the row
ExpectedProducts(rid, data) == {ProductRow(rid, r, data[r]) : r \in 1..Len(data)}

ExpectedImages(rid, data) ==
    LET pos == Positions(data)
    IN  {ImageRow(rid, pos[k][1], pos[k][2],
                  Trim(Split(data[pos[k][1]][InputImageUrls], Comma)[pos[k][2]])) :
            k \in 1..Len(pos)}

\* C17: in every step in which storeProductData settles, either it returned
\* and exactly the products and the 'pending' images of all rows were added
\* to the store, or it threw and the products and images tables are as they
\* were before the call
C17_StoreProductDataAtomic ==
    [][\A u \in Uploads :
          (req[u].pc = "storeProductData" /\ req'[u].pc # "storeProductData") =>
              LET rid == req[u].requestId
                  data == req[u].validatedData
              IN  IF req'[u].pc = "updateRequestStatus"
                  THEN /\ products' = products \cup ExpectedProducts(rid, data)
                       /\ images' = images \cup ExpectedImages(rid, data)
                       /\ Cardinality(ImagesOf(rid)') = Len(Positions(data))
                       /\ \A img \in ImagesOf(rid)' : img.processing_status = "pending"
                  ELSE /\ req'[u].error = "storeProductData"
                       /\ products' = products
                       /\ images' = images
      ]_vars

\* storeProductData threw for a two-row table: the request row exists and
\* no product or image of it is stored
C17_Witness ==
    \E u \in Uploads :
        /\ req[u].error = "storeProductData"
        /\ Len(req[u].validatedData) = 2
        /\ req[u].requestId \in JobIds
        /\ ProductsOf(req[u].requestId) = {}
        /\ {img \in images : img.id[1] = req[u].requestId} = {}

Acked(u) == req[u].res.status = 200

\* a write of processImages to the store has failed
StoreWriteFailed(b) ==
    \/ b.pc = "rejected"
    \/ b.error \in {"updateImageStatus", "updateRequestStatus"}

\* C18: when every awaited call of processImages settles, every acknowledged
\* request eventually has status 'completed' or 'failed', unless a store
\* write of its processing has failed
C18_AckedJobTerminates ==
    \A u \in Uploads :
        Acked(u) ~> (/\ req[u].requestId \in JobIds
                     /\ \/ requests[req[u].requestId] \in {"completed", "failed"}
                        \/ StoreWriteFailed(bg[u]))

\* an acknowledged request whose second transformation threw has reached
\* 'failed' with every store write successful
C18_Witness ==
    \E u \in Uploads :
        /\ Acked(u)
        /\ TransformerFailed(bg[u])
        /\ Len(bg[u].calls) = 2
        /\ ~StoreWriteFailed(bg[u])
        /\ requests[req[u].requestId] = "failed"

\* the request of an acknowledged upload exists with a status other than
\* 'pending', and a product for every row and an image for every url of the
\* uploaded table are stored under it
AckedJobReady(u) ==
    LET rid == req[u].requestId
        data == req[u].validatedData
        stored == ImagesOf(rid)
        expected == ExpectedImages(rid, data)
    IN  /\ rid \in JobIds
        /\ requests[rid] # "pending"
        /\ ExpectedProducts(rid, data) \subseteq products
        /\ {<<img.id, img.input_url>> : img \in stored}
              = {<<e.id, e.input_url>> : e \in expected}

\* C19: in every reachable state, every acknowledged upload's request exists,
\* is not 'pending' and has all its products and images stored; and every
\* status query for the id of an upload acknowledged before it is answered
\* with the request's status, which is not 'pending', never with 'Request
\* not found' (or with 500 when the read itself fails)
C19_AckedJobVisible ==
    /\ [](\A u \in Uploads : Acked(u) => AckedJobReady(u))
    /\ [][\A u \in Uploads :
             (Acked(u) /\ query' # query /\ query'.requestId = req[u].requestId) =>
                 \/ query'.res = StatusResponse(500, 0, "", MsgInternal)
                 \/ /\ query'.res.status = 200
                    /\ query'.res.jobStatus \in {"processing", "completed", "failed"}
         ]_vars

\* a status query for an acknowledged upload's request answered 'processing'
\* while its first transformation is in flight
C19_Witness ==
    \E u \in Uploads :
        /\ Acked(u)
        /\ query.requestId = req[u].requestId
        /\ query.res.status = 200
        /\ query.res.jobStatus = "processing"
        /\ bg[u].pc = "compressImage"
        /\ Len(bg[u].calls) = 1

\* the output urls a report line lists, in order
ReportedUrls(line) == MapTrim(Split(line[4], Comma))

\* C20 as stated: when a request is 'completed', its report has one line per
\* row of the table in the table's order (after the header), each line lists
\* one output url per input url of its row, and the image at every position
\* stores the output url the report lists at that position, also when a url
\* occurs more than once
C20_ReportMatchesImages ==
    \A u \in Uploads :
        (bg[u].pc # "none" /\ requests[bg[u].requestId] = "completed") =>
            LET b == bg[u]
                data == b.data
            IN  /\ b.outputCsvPath \in DOMAIN reports
                /\ Len(reports[b.outputCsvPath]) = (IF data = <<>> THEN 0 ELSE Len(data) + 1)
                /\ \A r \in 1..Len(data) :
                      LET line == reports[b.outputCsvPath][r + 1]
                          outs == ReportedUrls(line)
                      IN  /\ line[1] = data[r][SNo]
                          /\ line[2] = data[r][ProductName]
                          /\ line[3] = data[r][InputImageUrls]
                          /\ Len(outs) = Len(UrlList(data[r]))
                          /\ \A i \in 1..Len(outs) :
                                \E img \in images :
                                    /\ img.id = <<b.requestId, r, i>>
                                    /\ img.output_url = outs[i]
====
